---------------------------- MODULE Spec2Model ----------------------------
(***************************************************************************)
(* Model of main.py: the quantity directive helpers (parse_pq, set_pq),    *)
(* the request packer (build_requests_from_blocks), the delivery client    *)
(* (call_labelary_pdf) and the module-level run loop.                      *)
(*                                                                         *)
(* A block is a sequence of one-character strings, so that the regular     *)
(* expressions of the source are computed on the text itself.              *)
(***************************************************************************)
EXTENDS Integers, Sequences, FiniteSets, TLC

VARIABLES
    pc,             \* position of the program
    blocks,         \* the parsed block list (argument of build_requests_from_blocks)
    bi,             \* index in blocks of the loop variable b
    reqs,           \* build_requests_from_blocks: reqs
    current,        \* build_requests_from_blocks: current
    current_count,  \* build_requests_from_blocks: current_count
    remaining,      \* build_requests_from_blocks: remaining (0 outside the while loop)
    fn_block,       \* argument block of a direct set_pq call
    fn_n,           \* argument new_pq of a direct set_pq call
    fn_out,         \* the block returned by set_pq
    fn_pq,          \* parse_pq of the returned block
    zpl_text,       \* argument zpl_text of a direct zpl_split_blocks call
    requests_list,  \* run loop: the packed batches
    gi,             \* run loop: 1-based index of the batch being delivered
    call_blocks,    \* call_labelary_pdf: its argument blocks
    attempt,        \* call_labelary_pdf: the loop variable attempt
    hist,           \* sleeps, requests and their outcomes of the current call, in order
    result,         \* value returned by the current call (NoResult while running)
    handed,         \* batch indices handed to call_labelary_pdf, in order
    returned,       \* number of deliveries that have returned
    merged,         \* run loop: merged
    failed,         \* run loop: failed
    results,        \* the tuples returned by the deliveries of the run, in batch order
    reported,       \* the failure entries listed to the user at the end of the run
    final_doc       \* pages of the final document (NoDoc when none was built)

vars == <<pc, blocks, bi, reqs, current, current_count, remaining,
          fn_block, fn_n, fn_out, fn_pq, zpl_text,
          requests_list, gi, call_blocks, attempt, hist, result,
          handed, returned, merged, failed, results, reported, final_doc>>

packVars == <<reqs, current, current_count, remaining, bi>>
fnVars   == <<fn_block, fn_n, fn_out, fn_pq, zpl_text>>
callVars == <<call_blocks, attempt, hist, result>>
runVars  == <<requests_list, gi, handed, returned, merged, failed,
              results, reported, final_doc>>

-----------------------------------------------------------------------------
(* Bounds of the model.                                                    *)

MaxPieces == 4
MaxBlocks == 3
MaxRunBlocks == 2
MaxPages == 2
MaxTextPieces == 5

-----------------------------------------------------------------------------
(* Text helpers.                                                           *)

Min(S) == CHOOSE x \in S : \A y \in S : x <= y

RECURSIVE Flatten(_)
Flatten(ss) == IF ss = << >> THEN << >> ELSE Head(ss) \o Flatten(Tail(ss))

RECURSIVE SumSeq(_)
SumSeq(ns) == IF ns = << >> THEN 0 ELSE Head(ns) + SumSeq(Tail(ns))

SeqsUpTo(S, n) == UNION {[1..k -> S] : k \in 0..n}

\* re.IGNORECASE on the letters of the markers
Upper(c) ==
    CASE c = "a" -> "A" [] c = "p" -> "P" [] c = "q" -> "Q"
      [] c = "x" -> "X" [] c = "z" -> "Z" [] OTHER -> c

Digits == <<"0", "1", "2", "3", "4", "5", "6", "7", "8", "9">>

IsDigit(c) == \E k \in 1..10 : Digits[k] = c

DigitVal(c) == (CHOOSE k \in 1..10 : Digits[k] = c) - 1

\* \s of the regular expressions
IsSpace(c) == c \in {" ", "\n", "\t"}

\* the literal lit matches s at position i, ignoring case
MatchAt(s, i, lit) ==
    /\ i >= 1
    /\ i + Len(lit) - 1 <= Len(s)
    /\ \A k \in 1..Len(lit) : Upper(s[i + k - 1]) = Upper(lit[k])

RECURSIVE SkipSpace(_, _)
SkipSpace(s, j) ==
    IF j <= Len(s) /\ IsSpace(s[j]) THEN SkipSpace(s, j + 1) ELSE j

RECURSIVE SkipDigits(_, _)
SkipDigits(s, j) ==
    IF j <= Len(s) /\ IsDigit(s[j]) THEN SkipDigits(s, j + 1) ELSE j

\* int(text) of a non-empty run of ASCII digits
RECURSIVE int(_)
int(ds) ==
    IF ds = << >> THEN 0
    ELSE 10 * int(SubSeq(ds, 1, Len(ds) - 1)) + DigitVal(ds[Len(ds)])

\* str(n) of a non-negative integer, as the f-string formats it
RECURSIVE str(_)
str(n) ==
    IF n < 10 THEN <<Digits[n + 1]>>
    ELSE str(n \div 10) \o <<Digits[(n % 10) + 1]>>

XA == <<"^", "X", "A">>
XZ == <<"^", "X", "Z">>
PQ == <<"^", "P", "Q">>

-----------------------------------------------------------------------------
(* RE_PQ = \^PQ\s*([0-9]+), case-insensitive.                              *)

\* the pattern matches s starting at position i
RE_PQ_at(s, i) ==
    /\ MatchAt(s, i, PQ)
    /\ SkipDigits(s, SkipSpace(s, i + 3)) > SkipSpace(s, i + 3)

\* RE_PQ.search: position of the leftmost match, 0 when there is none
RE_PQ_search(s) ==
    LET hits == {i \in 1..Len(s) : RE_PQ_at(s, i)}
    IN  IF hits = {} THEN 0 ELSE Min(hits)

\* group(1) of the match at position i
RE_PQ_group1(s, i) ==
    LET d == SkipSpace(s, i + 3)
    IN  SubSeq(s, d, SkipDigits(s, d) - 1)

\* first position after the match at position i
RE_PQ_end(s, i) == SkipDigits(s, SkipSpace(s, i + 3))

parse_pq(block) ==
    LET m == RE_PQ_search(block)
    IN  IF m # 0 THEN int(RE_PQ_group1(block, m)) ELSE 1

\* re.sub(r"\^XZ\s*$", ...): the match is an end marker followed only by
\* whitespace up to the end of the text; 0 when there is none
XZ_end_search(s) ==
    LET hits == {i \in 1..Len(s) :
                    /\ MatchAt(s, i, XZ)
                    /\ SkipSpace(s, i + 3) = Len(s) + 1}
    IN  IF hits = {} THEN 0 ELSE Min(hits)

\* a rewriter that substitutes the marker only and leaves the old digits
set_pq_keep_digits(block, new_pq) ==
    LET m == RE_PQ_search(block)
        z == XZ_end_search(block)
    IN  IF m # 0
        THEN SubSeq(block, 1, m - 1) \o PQ \o str(new_pq)
                 \o SubSeq(block, m + 3, Len(block))
        ELSE IF z # 0
             THEN SubSeq(block, 1, z - 1) \o PQ \o str(new_pq) \o <<"\n">> \o XZ
             ELSE block

set_pq(block, new_pq) ==
    LET m == RE_PQ_search(block)
        z == XZ_end_search(block)
    IN  IF m # 0
        THEN SubSeq(block, 1, m - 1) \o PQ \o str(new_pq)
                 \o SubSeq(block, RE_PQ_end(block, m), Len(block))
        ELSE IF z # 0
             THEN SubSeq(block, 1, z - 1) \o PQ \o str(new_pq) \o <<"\n">> \o XZ
             ELSE block

-----------------------------------------------------------------------------
(* Blocks as the parser returns them: a start marker, an interior without  *)
(* end marker, an end marker, no surrounding whitespace.                    *)

Block(interior) == XA \o interior \o XZ

\* pieces of text an interior is assembled from
Pieces ==
    { PQ, <<"^", "p", "q">>, <<" ">>, <<"\n">>, <<"7">>, <<"0">>,
      <<"^", "F", "D">> }

FnBlocks == {Block(Flatten(ps)) : ps \in SeqsUpTo(Pieces, MaxPieces)}

\* new quantities handed to set_pq
FnQuantities == {1, 7, 20, 50, 120}


\* quantities of the blocks handed to the packer
PackQuantities == {0, 5, 10, 45, 50, 51, 100, 120}

\* a block without directive, and one with two directives (120 and 7)
PlainBlock == Block(<<"^", "F", "D">>)
TwoPQBlock == Block(PQ \o <<" ">> \o str(120) \o <<"\n", "^", "p", "q", "7">>)

PackBlocks ==
    {Block(PQ \o str(q)) : q \in PackQuantities} \cup {PlainBlock, TwoPQBlock}

PackInputs == SeqsUpTo(PackBlocks, MaxBlocks)

-----------------------------------------------------------------------------
(* The service cap written as the literal 50 in build_requests_from_blocks *)

Cap == 50

\* Optional values: None is the empty tuple, a value v is <<v>>
Some(v) == <<v>>
NoneVal == << >>

\* the call has not returned yet
NoResult == << >>
\* no final document was built
NoDoc == NoneVal

\* values of the variables an entry point does not use
IdlePack == /\ bi = 1 /\ reqs = << >> /\ current = << >>
            /\ current_count = 0 /\ remaining = 0
IdleFn   == /\ fn_block = << >> /\ fn_n = 0 /\ fn_out = << >> /\ fn_pq = 0
            /\ zpl_text = << >>
IdleCall == /\ call_blocks = << >> /\ attempt = 0 /\ hist = << >>
            /\ result = NoResult
IdleRun  == /\ requests_list = << >> /\ gi = 0 /\ handed = << >>
            /\ returned = 0 /\ merged = << >> /\ failed = << >>
            /\ results = << >> /\ reported = << >>
            /\ final_doc = NoDoc

-----------------------------------------------------------------------------
(* parse_pq and set_pq called directly.                                    *)

InitFn ==
    /\ pc = "fn"
    /\ blocks = << >>
    /\ fn_block \in FnBlocks
    /\ fn_n \in FnQuantities
    /\ fn_out = << >>
    /\ fn_pq = 0
    /\ zpl_text = << >>
    /\ IdlePack /\ IdleCall /\ IdleRun

CallSetPq ==
    /\ pc = "fn"
    /\ fn_out' = set_pq(fn_block, fn_n)
    /\ pc' = "fn_set"
    /\ UNCHANGED <<blocks, fn_block, fn_n, fn_pq, zpl_text, packVars, callVars, runVars>>

CallParsePq ==
    /\ pc = "fn_set"
    /\ fn_pq' = parse_pq(fn_out)
    /\ pc' = "fn_parsed"
    /\ UNCHANGED <<blocks, fn_block, fn_n, fn_out, zpl_text, packVars, callVars, runVars>>

NextFn == CallSetPq \/ CallParsePq

SpecFn == InitFn /\ [][NextFn]_vars

-----------------------------------------------------------------------------
(* build_requests_from_blocks, one loop iteration per step.                *)

SumPQ(bs) == SumSeq([k \in 1..Len(bs) |-> parse_pq(bs[k])])

InitPack ==
    /\ pc = "pack"
    /\ blocks \in PackInputs
    /\ IdlePack /\ IdleFn /\ IdleCall /\ IdleRun

\* a packer that lets a block with pq <= 50 in while the batch is not over the cap
PackWhole_late_check ==
    /\ pc = "pack"
    /\ bi <= Len(blocks)
    /\ parse_pq(blocks[bi]) <= Cap
    /\ LET b  == blocks[bi]
           pq == parse_pq(b)
       IN  IF current_count <= Cap
           THEN /\ current' = Append(current, b)
                /\ current_count' = current_count + pq
                /\ reqs' = reqs
           ELSE /\ reqs' = IF current # << >> THEN Append(reqs, current) ELSE reqs
                /\ current' = <<b>>
                /\ current_count' = pq
    /\ bi' = bi + 1
    /\ UNCHANGED <<pc, blocks, remaining, fnVars, callVars, runVars>>

\* a packer that puts a fitting block at the front of the batch
PackWhole_prepend ==
    /\ pc = "pack"
    /\ bi <= Len(blocks)
    /\ parse_pq(blocks[bi]) <= Cap
    /\ LET b  == blocks[bi]
           pq == parse_pq(b)
       IN  IF current_count + pq <= Cap
           THEN /\ current' = <<b>> \o current
                /\ current_count' = current_count + pq
                /\ reqs' = reqs
           ELSE /\ reqs' = IF current # << >> THEN Append(reqs, current) ELSE reqs
                /\ current' = <<b>>
                /\ current_count' = pq
    /\ bi' = bi + 1
    /\ UNCHANGED <<pc, blocks, remaining, fnVars, callVars, runVars>>

\* a packer that closes the batch before every block
PackWhole_always_close ==
    /\ pc = "pack"
    /\ bi <= Len(blocks)
    /\ parse_pq(blocks[bi]) <= Cap
    /\ LET b  == blocks[bi]
           pq == parse_pq(b)
       IN  /\ reqs' = IF current # << >> THEN Append(reqs, current) ELSE reqs
           /\ current' = <<b>>
           /\ current_count' = pq
    /\ bi' = bi + 1
    /\ UNCHANGED <<pc, blocks, remaining, fnVars, callVars, runVars>>

\* loop body for a block with pq <= 50
PackWhole ==
    /\ pc = "pack"
    /\ bi <= Len(blocks)
    /\ parse_pq(blocks[bi]) <= Cap
    /\ LET b  == blocks[bi]
           pq == parse_pq(b)
       IN  IF current_count + pq <= Cap
           THEN /\ current' = Append(current, b)
                /\ current_count' = current_count + pq
                /\ reqs' = reqs
           ELSE /\ reqs' = IF current # << >> THEN Append(reqs, current) ELSE reqs
                /\ current' = <<b>>
                /\ current_count' = pq
    /\ bi' = bi + 1
    /\ UNCHANGED <<pc, blocks, remaining, fnVars, callVars, runVars>>

\* a block with pq > 50: remaining = pq, enter the while loop
PackSplit ==
    /\ pc = "pack"
    /\ bi <= Len(blocks)
    /\ parse_pq(blocks[bi]) > Cap
    /\ remaining' = parse_pq(blocks[bi])
    /\ pc' = "split"
    /\ UNCHANGED <<blocks, bi, reqs, current, current_count,
                   fnVars, callVars, runVars>>

\* a splitter that appends every fragment to a batch that is not empty
PackPiece_never_close ==
    /\ pc = "split"
    /\ remaining > 0
    /\ LET b       == blocks[bi]
           take    == IF remaining < Cap THEN remaining ELSE Cap
           b_piece == set_pq(b, take)
       IN  /\ IF current # << >>
              THEN /\ current' = Append(current, b_piece)
                   /\ current_count' = current_count + take
                   /\ reqs' = reqs
              ELSE /\ reqs' = reqs
                   /\ current' = <<b_piece>>
                   /\ current_count' = take
           /\ remaining' = remaining - take
           /\ IF remaining - take > 0
              THEN /\ pc' = "split" /\ bi' = bi
              ELSE /\ pc' = "pack" /\ bi' = bi + 1
    /\ UNCHANGED <<blocks, fnVars, callVars, runVars>>

\* a splitter that closes the batch under construction without looking at it
PackPiece_unguarded ==
    /\ pc = "split"
    /\ remaining > 0
    /\ LET b       == blocks[bi]
           take    == IF remaining < Cap THEN remaining ELSE Cap
           b_piece == set_pq(b, take)
       IN  /\ IF current_count + take <= Cap /\ current # << >>
              THEN /\ current' = Append(current, b_piece)
                   /\ current_count' = current_count + take
                   /\ reqs' = reqs
              ELSE /\ reqs' = Append(reqs, current)
                   /\ current' = <<b_piece>>
                   /\ current_count' = take
           /\ remaining' = remaining - take
           /\ IF remaining - take > 0
              THEN /\ pc' = "split" /\ bi' = bi
              ELSE /\ pc' = "pack" /\ bi' = bi + 1
    /\ UNCHANGED <<blocks, fnVars, callVars, runVars>>

\* one iteration of the while loop that cuts a block in pieces of 50
PackPiece ==
    /\ pc = "split"
    /\ remaining > 0
    /\ LET b       == blocks[bi]
           take    == IF remaining < Cap THEN remaining ELSE Cap
           b_piece == set_pq(b, take)
       IN  /\ IF current_count + take <= Cap /\ current # << >>
              THEN /\ current' = Append(current, b_piece)
                   /\ current_count' = current_count + take
                   /\ reqs' = reqs
              ELSE /\ reqs' = IF current # << >> THEN Append(reqs, current) ELSE reqs
                   /\ current' = <<b_piece>>
                   /\ current_count' = take
           /\ remaining' = remaining - take
           /\ IF remaining - take > 0
              THEN /\ pc' = "split" /\ bi' = bi
              ELSE /\ pc' = "pack" /\ bi' = bi + 1
    /\ UNCHANGED <<blocks, fnVars, callVars, runVars>>

\* a packer that returns without flushing the batch under construction
PackReturn_no_flush ==
    /\ pc = "pack"
    /\ bi > Len(blocks)
    /\ pc' = "packed"
    /\ UNCHANGED <<blocks, bi, reqs, current, current_count, remaining,
                   fnVars, callVars, runVars>>

\* after the for loop: flush the batch under construction and return reqs
PackReturn ==
    /\ pc = "pack"
    /\ bi > Len(blocks)
    /\ reqs' = IF current # << >> THEN Append(reqs, current) ELSE reqs
    /\ pc' = "packed"
    /\ UNCHANGED <<blocks, bi, current, current_count, remaining,
                   fnVars, callVars, runVars>>

NextPack == PackWhole \/ PackSplit \/ PackPiece \/ PackReturn

SpecPack == InitPack /\ [][NextPack]_vars

-----------------------------------------------------------------------------
(* Properties of the packer and of the quantity helpers.                   *)

Quantities(bs) == [k \in 1..Len(bs) |-> parse_pq(bs[k])]

\* the fragments a block is expected to be cut in
Fragments(b) ==
    LET q == parse_pq(b)
    IN  IF q <= Cap THEN <<b>>
        ELSE [k \in 1..((q + Cap - 1) \div Cap) |->
                 set_pq(b, IF k * Cap <= q THEN Cap ELSE q % Cap)]

Expand(bs) == Flatten([k \in 1..Len(bs) |-> Fragments(bs[k])])

\* the quantities a quantity is expected to be cut in
QtyFragments(q) ==
    IF q <= Cap THEN <<q>>
    ELSE [k \in 1..((q + Cap - 1) \div Cap) |->
             IF k * Cap <= q THEN Cap ELSE q % Cap]

\* C1: every batch, closed or under construction, sums to at most 50 copies
\* (sum of parse_pq over its blocks), and the running count is that sum and
\* never exceeds 50 at any step of the packing loop.
C1_BatchWithinCap ==
    /\ \A k \in 1..Len(reqs) : SumPQ(reqs[k]) <= Cap
    /\ current_count <= Cap
    /\ SumPQ(current) = current_count

C1_Witness ==
    /\ pc = "packed"
    /\ Len(reqs) >= 3
    /\ \E k \in 1..Len(blocks) : parse_pq(blocks[k]) > Cap
    /\ \E k \in 1..Len(blocks) : RE_PQ_search(blocks[k]) = 0

\* C2: the copies of all blocks of all returned batches add up to the copies
\* of the input blocks.
C2_TotalPreserved ==
    pc = "packed" => SumPQ(Flatten(reqs)) = SumPQ(blocks)

C2_Witness ==
    /\ pc = "packed"
    /\ Len(blocks) >= 2
    /\ \E k \in 1..Len(blocks) :
          parse_pq(blocks[k]) > Cap /\ parse_pq(blocks[k]) % Cap # 0
    /\ SumPQ(blocks) > 2 * Cap

\* C3: the batches concatenated in batch order are the input blocks in their
\* order, a block above 50 replaced in place by its consecutive fragments and
\* every other block unmodified.
C3_OrderPreserved ==
    pc = "packed" => Flatten(reqs) = Expand(blocks)

C3_Witness ==
    /\ pc = "packed"
    /\ Len(blocks) = 3
    /\ parse_pq(blocks[1]) <= Cap
    /\ parse_pq(blocks[2]) > Cap
    /\ parse_pq(blocks[3]) <= Cap
    /\ blocks[1] # blocks[3]
    /\ Len(Flatten(reqs)) > 3

\* C4: a block with quantity q above 50 comes out as ceil(q/50) consecutive
\* fragments of 50, ..., 50 and q mod 50 when that is not zero; when it is the
\* only input block every fragment is a batch of its own.
C4_SplitSizes ==
    pc = "packed" =>
        /\ Quantities(Flatten(reqs))
             = Flatten([k \in 1..Len(blocks) |-> QtyFragments(parse_pq(blocks[k]))])
        /\ \A k \in 1..Len(blocks) :
              \A j \in 1..Len(QtyFragments(parse_pq(blocks[k]))) :
                 QtyFragments(parse_pq(blocks[k]))[j] <= Cap
        /\ (Len(blocks) = 1 /\ parse_pq(blocks[1]) > Cap) =>
              /\ Len(reqs) = (parse_pq(blocks[1]) + Cap - 1) \div Cap
              /\ \A k \in 1..Len(reqs) : Len(reqs[k]) = 1

C4_Witness ==
    /\ pc = "packed"
    /\ blocks = <<Block(PQ \o str(120))>>
    /\ Len(reqs) = 3
    /\ [k \in 1..3 |-> Quantities(reqs[k])] = << <<50>>, <<50>>, <<20>> >>

\* C5: a batch is closed only when the next item would push it above 50: the
\* total of a batch plus the quantity of the first item of the batch after it
\* is greater than 50.
C5_Greedy ==
    /\ \A k \in 1..(Len(reqs) - 1) :
          /\ reqs[k + 1] # << >>
          /\ SumPQ(reqs[k]) + parse_pq(reqs[k + 1][1]) > Cap
    /\ (pc # "packed" /\ reqs # << >> /\ current # << >>) =>
          SumPQ(reqs[Len(reqs)]) + parse_pq(current[1]) > Cap

C5_Witness ==
    /\ pc = "packed"
    /\ Quantities(blocks) = <<10, 45, 5>>
    /\ Len(reqs) = 2
    /\ Quantities(reqs[1]) = <<10>>
    /\ Quantities(reqs[2]) = <<45, 5>>

\* C6: parse_pq(set_pq(b, n)) = n for every block b and every n >= 1, with
\* and without a quantity directive in b.
C6_RoundTrip ==
    pc = "fn_parsed" => fn_pq = fn_n

\* the directive is absent although the block holds the bare marker
C6_Witness ==
    /\ pc = "fn_parsed"
    /\ RE_PQ_search(fn_block) = 0
    /\ \E i \in 1..Len(fn_block) : MatchAt(fn_block, i, PQ)
    /\ fn_pq = fn_n
    /\ fn_n > Cap

\* the directive is present twice and the first one is rewritten
C6_WitnessPresent ==
    /\ pc = "fn_parsed"
    /\ RE_PQ_search(fn_block) # 0
    /\ parse_pq(fn_block) # fn_n
    /\ Cardinality({i \in 1..Len(fn_block) : RE_PQ_at(fn_block, i)}) = 2
    /\ fn_pq = fn_n

-----------------------------------------------------------------------------
(* call_labelary_pdf.  Times are counted in half seconds.                  *)

max_retries == 5
CHUNK_RPS == 2
Second == 2
RATE_DELAY == Second \div CHUNK_RPS

RECURSIVE Pow2(_)
Pow2(n) == IF n = 0 THEN 1 ELSE 2 * Pow2(n - 1)

\* a backoff that starts at two seconds: min(60, 2 ** attempt)
BackoffBase_from_two(a) == Second * (IF Pow2(a) < 60 THEN Pow2(a) ELSE 60)

\* min(60, 2 ** (attempt - 1)), in half seconds
BackoffBase(a) == Second * (IF Pow2(a - 1) < 60 THEN Pow2(a - 1) ELSE 60)

\* events of one call: the sleeps and the requests with what came back
Event(ev, a, status, content, text, lo, hi) ==
    [ev |-> ev, attempt |-> a, status |-> status, content |-> content,
     text |-> text, lo |-> lo, hi |-> hi]

\* time.sleep(rate_delay_s)
DelayEvent == Event("delay", 0, 0, << >>, "", RATE_DELAY, RATE_DELAY)

\* time.sleep(backoff): backoff is in [lo, hi), jitter of 0.5 * attempt seconds
BackoffEvent(a) ==
    Event("backoff", a, 0, << >>, "", BackoffBase(a), BackoffBase(a) + a)

\* what one requests.post can come back with: a response or a RequestException
Response(status, content, text) == Event("response", 0, status, content, text, 0, 0)
TransportError == Event("error", 0, 0, << >>, "", 0, 0)

\* a rendered document of n pages for batch g
Document(g, n) == [j \in 1..n |-> <<g, j>>]

Texts == {"", "Max retries exceeded"}

\* outcomes of a request of batch g, from the given statuses
Outcomes(statuses, texts, g) ==
    {Response(200, Document(g, n), "") : n \in 0..MaxPages}
        \cup {Response(st, << >>, t) : st \in statuses \ {200}, t \in texts}
        \cup {TransportError}

CallStatuses == {200, 204, 413, 429, 500, 599, 600}
RunStatuses == {200, 413}

\* a client that retries on 5xx only
IsTransientStatus_5xx_only(code) == 500 <= code /\ code < 600

\* a client that retries on every status from 400 on
IsTransientStatus_from_400(code) == code >= 400

\* code == 429 or 500 <= code < 600
IsTransientStatus(code) == code = 429 \/ (500 <= code /\ code < 600)

\* (pdf_bytes, error_text, http_code)
Returned(pdf_bytes, error_text, http_code) == <<pdf_bytes, error_text, http_code>>

Exhausted == Returned(NoneVal, Some("Max retries exceeded"), Some(-1))

\* a client that sends its first request without waiting
CallEnter_no_delay ==
    /\ pc = "call_enter"
    /\ hist' = << >>
    /\ attempt' = 1
    /\ IF max_retries >= 1
       THEN /\ pc' = "call" /\ result' = NoResult
       ELSE /\ pc' = "call_ret" /\ result' = Exhausted
    /\ UNCHANGED <<blocks, call_blocks, packVars, fnVars, runVars>>

\* entry of the function up to the first request: the rate delay
CallEnter ==
    /\ pc = "call_enter"
    /\ hist' = <<DelayEvent>>
    /\ attempt' = 1
    /\ IF max_retries >= 1
       THEN /\ pc' = "call" /\ result' = NoResult
       ELSE /\ pc' = "call_ret" /\ result' = Exhausted
    /\ UNCHANGED <<blocks, call_blocks, packVars, fnVars, runVars>>

\* a client whose loop is range(1, max_retries)
AttemptWith_short_range(outcomes) ==
    /\ pc = "call"
    /\ attempt <= max_retries
    /\ \E o \in outcomes :
          LET req == [o EXCEPT !.attempt = attempt]
          IN  IF o.ev = "response" /\ o.status = 200
              THEN /\ hist' = Append(hist, req)
                   /\ result' = Returned(Some(o.content), NoneVal, NoneVal)
                   /\ pc' = "call_ret"
                   /\ attempt' = attempt
              ELSE IF o.ev = "error" \/ IsTransientStatus(o.status)
              THEN /\ hist' = hist \o <<req, BackoffEvent(attempt)>>
                   /\ IF attempt + 1 < max_retries
                      THEN /\ attempt' = attempt + 1
                           /\ result' = NoResult
                           /\ pc' = "call"
                      ELSE /\ attempt' = attempt
                           /\ result' = Exhausted
                           /\ pc' = "call_ret"
              ELSE /\ hist' = Append(hist, req)
                   /\ result' = Returned(NoneVal, Some(o.text), Some(o.status))
                   /\ pc' = "call_ret"
                   /\ attempt' = attempt
    /\ UNCHANGED <<blocks, call_blocks, packVars, fnVars, runVars>>

\* a client that does not sleep after the last attempt
AttemptWith_no_last_sleep(outcomes) ==
    /\ pc = "call"
    /\ attempt <= max_retries
    /\ \E o \in outcomes :
          LET req == [o EXCEPT !.attempt = attempt]
          IN  IF o.ev = "response" /\ o.status = 200
              THEN /\ hist' = Append(hist, req)
                   /\ result' = Returned(Some(o.content), NoneVal, NoneVal)
                   /\ pc' = "call_ret"
                   /\ attempt' = attempt
              ELSE IF o.ev = "error" \/ IsTransientStatus(o.status)
              THEN IF attempt < max_retries
                   THEN /\ hist' = hist \o <<req, BackoffEvent(attempt)>>
                        /\ attempt' = attempt + 1
                        /\ result' = NoResult
                        /\ pc' = "call"
                   ELSE /\ hist' = Append(hist, req)
                        /\ attempt' = attempt
                        /\ result' = Exhausted
                        /\ pc' = "call_ret"
              ELSE /\ hist' = Append(hist, req)
                   /\ result' = Returned(NoneVal, Some(o.text), Some(o.status))
                   /\ pc' = "call_ret"
                   /\ attempt' = attempt
    /\ UNCHANGED <<blocks, call_blocks, packVars, fnVars, runVars>>

\* one iteration of the retry loop; after the sleep of the last attempt the
\* loop is over and the function returns the exhaustion result
AttemptWith(outcomes) ==
    /\ pc = "call"
    /\ attempt <= max_retries
    /\ \E o \in outcomes :
          LET req == [o EXCEPT !.attempt = attempt]
          IN  IF o.ev = "response" /\ o.status = 200
              THEN /\ hist' = Append(hist, req)
                   /\ result' = Returned(Some(o.content), NoneVal, NoneVal)
                   /\ pc' = "call_ret"
                   /\ attempt' = attempt
              ELSE IF o.ev = "error" \/ IsTransientStatus(o.status)
              THEN /\ hist' = hist \o <<req, BackoffEvent(attempt)>>
                   /\ IF attempt < max_retries
                      THEN /\ attempt' = attempt + 1
                           /\ result' = NoResult
                           /\ pc' = "call"
                      ELSE /\ attempt' = attempt
                           /\ result' = Exhausted
                           /\ pc' = "call_ret"
              ELSE /\ hist' = Append(hist, req)
                   /\ result' = Returned(NoneVal, Some(o.text), Some(o.status))
                   /\ pc' = "call_ret"
                   /\ attempt' = attempt
    /\ UNCHANGED <<blocks, call_blocks, packVars, fnVars, runVars>>

\* a call on its own: any batch of packed blocks
CallInputs == {<<PlainBlock, Block(PQ \o str(Cap - 1))>>}

InitCall ==
    /\ pc = "call_enter"
    /\ blocks = << >>
    /\ call_blocks \in CallInputs
    /\ attempt = 0 /\ hist = << >> /\ result = NoResult
    /\ IdlePack /\ IdleFn /\ IdleRun

CallAttempt == AttemptWith(Outcomes(CallStatuses, Texts, 0))

NextCall == CallEnter \/ CallAttempt

SpecCall == InitCall /\ [][NextCall]_vars

-----------------------------------------------------------------------------
(* Properties of call_labelary_pdf.                                        *)

\* the requests of the current call with what came back, in order
Posts == SelectSeq(hist, LAMBDA e : e.ev \in {"response", "error"})

\* the outcome classes as the design states them
TransientOutcome(e) ==
    \/ e.ev = "error"
    \/ e.ev = "response" /\ (e.status = 429 \/ e.status \in 500..599)

SuccessOutcome(e) == e.ev = "response" /\ e.status = 200

HardOutcome(e) ==
    e.ev = "response" /\ e.status # 200 /\ e.status # 429 /\ e.status \notin 500..599

\* C7: while fewer than max_retries attempts have all ended in a transient
\* outcome the call goes on to the next attempt, and when attempt k+1 then
\* receives status 200 the call returns the bytes of that response after
\* exactly k+1 requests.
C7_RetryThenSuccess ==
    LET n == Len(Posts)
    IN  /\ (n < max_retries /\ \A j \in 1..n : TransientOutcome(Posts[j])) =>
              (n > 0 => /\ pc = "call"
                        /\ result = NoResult
                        /\ attempt = n + 1)
        /\ (/\ n >= 1
            /\ n - 1 < max_retries
            /\ SuccessOutcome(Posts[n])
            /\ \A j \in 1..(n - 1) : TransientOutcome(Posts[j])) =>
              /\ pc = "call_ret"
              /\ result = Returned(Some(Posts[n].content), NoneVal, NoneVal)
              /\ Posts[n].attempt = n

\* status 500 three times, then 200 on the fourth attempt
C7_Witness ==
    /\ pc = "call_ret"
    /\ Len(Posts) = 4
    /\ \A j \in 1..3 : Posts[j].ev = "response" /\ Posts[j].status = 500
    /\ SuccessOutcome(Posts[4])
    /\ Posts[4].content # << >>
    /\ result = Returned(Some(Posts[4].content), NoneVal, NoneVal)

\* C8: a response that is neither 200 nor 429 nor 5xx ends the delivery at
\* once: it is the last event of the call (no further request, no backoff
\* sleep) and the call returns a failure carrying its status; a first response
\* of 413 fails after exactly one attempt.
C8_HardFailureStops ==
    \A j \in 1..Len(hist) :
        HardOutcome(hist[j]) =>
            /\ j = Len(hist)
            /\ pc = "call_ret"
            /\ result = Returned(NoneVal, Some(hist[j].text), Some(hist[j].status))
            /\ (Posts[1] = hist[j] => Len(Posts) = 1)

\* the third attempt receives 413 after two transient outcomes
C8_Witness ==
    /\ pc = "call_ret"
    /\ Len(Posts) = 3
    /\ Posts[3].ev = "response" /\ Posts[3].status = 413
    /\ result = Returned(NoneVal, Some(Posts[3].text), Some(413))
    /\ hist[Len(hist)] = Posts[3]

\* a first response of 413
C8_WitnessFirst ==
    /\ pc = "call_ret"
    /\ Len(Posts) = 1
    /\ Posts[1].ev = "response" /\ Posts[1].status = 413
    /\ result[3] = Some(413)

\* C9: when every attempt ends in a transient outcome the call sends exactly
\* max_retries requests and returns the exhaustion result (None, "Max retries
\* exceeded", -1); only such a call returns the code -1, and no call sends
\* more than max_retries requests.
C9_Exhaustion ==
    /\ Len(Posts) <= max_retries
    /\ \A j \in 1..Len(Posts) : Posts[j].attempt = j
    /\ (Len(Posts) = max_retries /\ \A j \in 1..Len(Posts) : TransientOutcome(Posts[j]))
          => (pc = "call_ret" /\ result = Exhausted)
    /\ (result # NoResult /\ result[3] = Some(-1)) =>
          /\ result = Exhausted
          /\ Len(Posts) = max_retries
          /\ \A j \in 1..Len(Posts) : TransientOutcome(Posts[j])
    /\ (pc = "call_ret" /\ \A j \in 1..Len(Posts) : TransientOutcome(Posts[j]))
          => Len(Posts) = max_retries

C9_Witness ==
    /\ pc = "call_ret"
    /\ result = Exhausted
    /\ Len(Posts) = max_retries
    /\ \E j \in 1..Len(Posts) : Posts[j].ev = "error"
    /\ \E j \in 1..Len(Posts) : Posts[j].ev = "response" /\ Posts[j].status = 429
    /\ \E j \in 1..Len(Posts) : Posts[j].ev = "response" /\ Posts[j].status = 599

-----------------------------------------------------------------------------
(* The run: lines 178-250 of the module.                                   *)

RunBlocks == {PlainBlock, Block(PQ \o str(30)), Block(PQ \o str(60))}

RunInputs == SeqsUpTo(RunBlocks, MaxRunBlocks)

RunTexts == {"ERROR: too many labels"}

InitRun ==
    /\ pc = "run"
    /\ blocks \in RunInputs
    /\ IdlePack /\ IdleFn /\ IdleCall /\ IdleRun

\* blocks = zpl_split_blocks(text); without blocks the run ends with a notice,
\* otherwise build_requests_from_blocks is called
RunStart ==
    /\ pc = "run"
    /\ pc' = IF blocks = << >> THEN "no_blocks" ELSE "pack"
    /\ UNCHANGED <<blocks, packVars, fnVars, callVars, runVars>>

\* requests_list = build_requests_from_blocks(blocks); merged = []; failed = []
RunLoopInit ==
    /\ pc = "packed"
    /\ requests_list' = reqs
    /\ merged' = << >>
    /\ failed' = << >>
    /\ gi' = 1
    /\ pc' = "loop"
    /\ UNCHANGED <<blocks, packVars, fnVars, callVars, handed, returned,
                   results, reported, final_doc>>

\* for gi, req_blocks in enumerate(requests_list, start=1): call_labelary_pdf(req_blocks, ...)
RunDeliver ==
    /\ pc = "loop"
    /\ gi <= Len(requests_list)
    /\ call_blocks' = requests_list[gi]
    /\ handed' = Append(handed, gi)
    /\ attempt' = 0
    /\ hist' = << >>
    /\ result' = NoResult
    /\ pc' = "call_enter"
    /\ UNCHANGED <<blocks, packVars, fnVars, requests_list, gi, returned,
                   merged, failed, results, reported, final_doc>>

RunAttempt == AttemptWith(Outcomes(RunStatuses, RunTexts, gi))

\* `if pdf_bytes:` is false for None and for empty bytes
Truthy(opt) == opt # NoneVal /\ opt[1] # << >>

\* blocks.index(b) if b in blocks else -1, then idx+1 if idx >= 0 else None
SourceIndex(b) ==
    LET at == {k \in 1..Len(blocks) : blocks[k] = b}
    IN  IF at = {} THEN NoneVal ELSE Some(Min(at))

\* describe_block(b, idx if idx>=0 else 0, pq): "#{idx+1} (PQ={pq})"; the blocks
\* of the model hold neither a JSON id nor a ^FD...^FS field, so no ident follows
describe_block(b, index, pq) ==
    <<IF index = NoneVal THEN 1 ELSE index[1], pq>>

\* the entry appended to failed for block b of group g
FailureEntry(b, g, err_txt, err_code) ==
    [index |-> SourceIndex(b),
     pq    |-> parse_pq(b),
     desc  |-> describe_block(b, SourceIndex(b), parse_pq(b)),
     group |-> g,
     http  |-> err_code,
     err   |-> IF err_txt = NoneVal THEN "" ELSE err_txt[1]]

\* a run loop that leaves the loop when a batch fails
RunCollect_break ==
    /\ pc = "call_ret"
    /\ LET pdf_bytes == result[1]
           err_txt   == result[2]
           err_code  == result[3]
       IN  IF Truthy(pdf_bytes)
           THEN /\ merged' = Append(merged, pdf_bytes[1])
                /\ failed' = failed
                /\ gi' = gi + 1
           ELSE /\ merged' = merged
                /\ failed' = failed \o [k \in 1..Len(call_blocks) |->
                                FailureEntry(call_blocks[k], gi, err_txt, err_code)]
                /\ gi' = Len(requests_list) + 1
    /\ returned' = returned + 1
    /\ results' = Append(results, result)
    /\ pc' = "loop"
    /\ UNCHANGED <<blocks, packVars, fnVars, callVars, requests_list,
                   handed, reported, final_doc>>

\* a run loop that records one entry for a failed batch, for its first block
RunCollect_one_entry ==
    /\ pc = "call_ret"
    /\ LET pdf_bytes == result[1]
           err_txt   == result[2]
           err_code  == result[3]
       IN  IF Truthy(pdf_bytes)
           THEN /\ merged' = Append(merged, pdf_bytes[1])
                /\ failed' = failed
           ELSE /\ merged' = merged
                /\ failed' = Append(failed,
                                FailureEntry(call_blocks[1], gi, err_txt, err_code))
    /\ gi' = gi + 1
    /\ returned' = returned + 1
    /\ results' = Append(results, result)
    /\ pc' = "loop"
    /\ UNCHANGED <<blocks, packVars, fnVars, callVars, requests_list,
                   handed, reported, final_doc>>

\* lines 208-226: the result of the delivery goes to merged or to failed
RunCollect ==
    /\ pc = "call_ret"
    /\ LET pdf_bytes == result[1]
           err_txt   == result[2]
           err_code  == result[3]
       IN  IF Truthy(pdf_bytes)
           THEN /\ merged' = Append(merged, pdf_bytes[1])
                /\ failed' = failed
           ELSE /\ merged' = merged
                /\ failed' = failed \o [k \in 1..Len(call_blocks) |->
                                FailureEntry(call_blocks[k], gi, err_txt, err_code)]
    /\ gi' = gi + 1
    /\ returned' = returned + 1
    /\ results' = Append(results, result)
    /\ pc' = "loop"
    /\ UNCHANGED <<blocks, packVars, fnVars, callVars, requests_list,
                   handed, reported, final_doc>>

\* a merger that keeps the first page of every chunk only
merge_pdf_bytes_first_page(chunks) ==
    Flatten([k \in 1..Len(chunks) |-> SubSeq(chunks[k], 1, 1)])

\* every page of every chunk, in order
merge_pdf_bytes(chunks) == Flatten(chunks)

\* a finalisation that builds the document only when no batch failed
RunFinish_all_or_nothing ==
    /\ pc = "loop"
    /\ gi > Len(requests_list)
    /\ IF merged = << >> \/ failed # << >>
       THEN /\ pc' = "stopped"
            /\ final_doc' = NoDoc
       ELSE /\ pc' = "done"
            /\ final_doc' = Some(merge_pdf_bytes(merged))
    /\ reported' = failed
    /\ UNCHANGED <<blocks, packVars, fnVars, callVars, requests_list, gi,
                   handed, returned, merged, failed, results>>

\* lines 228-250: without a rendered batch the run stops with an error,
\* otherwise the chunks are merged into the final document; both branches
\* list every entry of failed when there is one
RunFinish ==
    /\ pc = "loop"
    /\ gi > Len(requests_list)
    /\ IF merged = << >>
       THEN /\ pc' = "stopped"
            /\ final_doc' = NoDoc
       ELSE /\ pc' = "done"
            /\ final_doc' = Some(merge_pdf_bytes(merged))
    /\ reported' = failed
    /\ UNCHANGED <<blocks, packVars, fnVars, callVars, requests_list, gi,
                   handed, returned, merged, failed, results>>

NextRun ==
    \/ RunStart
    \/ PackWhole \/ PackSplit \/ PackPiece \/ PackReturn
    \/ RunLoopInit
    \/ RunDeliver
    \/ CallEnter
    \/ RunAttempt
    \/ RunCollect
    \/ RunFinish

SpecRun == InitRun /\ [][NextRun]_vars

\* C10: the run never aborts because a batch failed: every batch of the packed
\* list is handed to call_labelary_pdf exactly once, in batch order, and a
\* batch is handed over, and its requests are sent, only after the deliveries
\* of all batches before it have returned.
C10_EveryBatchDelivered ==
    /\ handed = [k \in 1..Len(handed) |-> k]
    /\ Len(handed) <= Len(requests_list)
    /\ returned \in {Len(handed) - 1, Len(handed)} \cap 0..Len(handed)
    /\ pc \in {"call_enter", "call", "call_ret"} =>
          /\ returned = Len(handed) - 1
          /\ gi = Len(handed)
          /\ call_blocks = requests_list[gi]
    /\ pc \in {"loop", "done", "stopped"} => returned = Len(handed)
    /\ pc \in {"done", "stopped"} =>
          /\ Len(handed) = Len(requests_list)
          /\ returned = Len(requests_list)
          /\ Len(merged) + Cardinality({failed[k].group : k \in 1..Len(failed)})
                = Len(requests_list)

\* three batches: a hard failure, a success, retries exhausted
C10_Witness ==
    /\ pc = "done"
    /\ Len(requests_list) = 3
    /\ handed = <<1, 2, 3>>
    /\ Len(merged) = 1
    /\ \E k \in 1..Len(failed) : failed[k].group = 1 /\ failed[k].http = Some(413)
    /\ \E k \in 1..Len(failed) : failed[k].group = 3 /\ failed[k].http = Some(-1)

-----------------------------------------------------------------------------
(* Properties of the run.                                                  *)

\* the delivery returned rendered bytes that are not empty
Rendered(r) == r[1] # NoneVal /\ Len(r[1][1]) > 0 /\ r[2] = NoneVal /\ r[3] = NoneVal

\* the run is over, it had two batches, batch 1 was rendered and batch 2
\* exhausted its retries
TwoBatchesSecondExhausted ==
    /\ pc \in {"done", "stopped"}
    /\ Len(requests_list) = 2
    /\ Rendered(results[1])
    /\ results[2] = Exhausted

DeliveredOK(r) == r[1] # NoneVal /\ r[2] = NoneVal /\ r[3] = NoneVal

\* every buffer returned by a successful delivery is a document with pages
WellFormedBuffers ==
    \A k \in 1..Len(results) : DeliveredOK(results[k]) => Len(results[k][1][1]) > 0

\* C12: after all batches are processed, and given well-formed rendered
\* buffers, a final document is produced if and only if at least one batch
\* succeeded; when none succeeded the run ends as failed without document;
\* in both cases every accumulated failure entry is listed, and every batch
\* that did not succeed has entries among them.
C12_DocumentIffSuccess ==
    (pc \in {"done", "stopped"} /\ WellFormedBuffers) =>
        LET ok == {k \in 1..Len(results) : DeliveredOK(results[k])}
        IN  /\ Len(results) = Len(requests_list)
            /\ (final_doc # NoDoc) <=> (ok # {})
            /\ (ok = {}) <=> (pc = "stopped")
            /\ reported = failed
            /\ \A k \in 1..Len(results) :
                  (k \notin ok) <=> (\E i \in 1..Len(reported) : reported[i].group = k)

\* a document is produced although one of three batches failed
C12_Witness ==
    /\ pc = "done"
    /\ WellFormedBuffers
    /\ Len(requests_list) = 3
    /\ final_doc # NoDoc
    /\ Cardinality({k \in 1..3 : DeliveredOK(results[k])}) = 1
    /\ reported = failed
    /\ Len(reported) >= 2

\* no batch succeeded: no document, the failures are listed
C12_WitnessNone ==
    /\ pc = "stopped"
    /\ WellFormedBuffers
    /\ Len(requests_list) = 2
    /\ final_doc = NoDoc
    /\ reported = failed
    /\ Len(reported) >= 2

\* the pages of the rendered outputs of the successful deliveries, in order
RECURSIVE RenderedPages(_)
RenderedPages(rs) ==
    IF rs = << >> THEN << >>
    ELSE (IF DeliveredOK(Head(rs)) THEN Head(rs)[1][1] ELSE << >>)
             \o RenderedPages(Tail(rs))

\* page <<g, j>> comes before page <<h, i>>
PageBefore(p, q) == p[1] < q[1] \/ (p[1] = q[1] /\ p[2] < q[2])

\* C13: the final document is the concatenation, in batch order, of all pages
\* of the rendered outputs of the successful batches, each output in its own
\* page order; failed batches contribute nothing.
C13_PagesInBatchOrder ==
    pc = "done" =>
        /\ final_doc = Some(RenderedPages(results))
        /\ \A i \in 1..Len(final_doc[1]) : \A j \in 1..Len(final_doc[1]) :
              i < j => PageBefore(final_doc[1][i], final_doc[1][j])
        /\ \A i \in 1..Len(final_doc[1]) : DeliveredOK(results[final_doc[1][i][1]])

\* two single-page documents give a two-page document in input order
C13_Witness ==
    /\ pc = "done"
    /\ Len(requests_list) = 2
    /\ results[1][1] = Some(Document(1, 1))
    /\ results[2][1] = Some(Document(2, 1))
    /\ final_doc = Some(<< <<1, 1>>, <<2, 1>> >>)

\* a failed batch between two rendered batches, one of them of two pages
C13_WitnessRetry ==
    /\ pc = "done"
    /\ Len(requests_list) = 3
    /\ ~DeliveredOK(results[2])
    /\ final_doc = Some(<< <<1, 1>>, <<1, 2>>, <<3, 1>> >>)

-----------------------------------------------------------------------------
(* zpl_split_blocks called directly.                                       *)

\* t.replace("\r\n", "\n").replace("\r", "\n")
RECURSIVE NormalizeNewlines(_)
NormalizeNewlines(t) ==
    IF t = << >> THEN << >>
    ELSE IF Head(t) = "\r"
         THEN IF Len(t) >= 2 /\ t[2] = "\n"
              THEN <<"\n">> \o NormalizeNewlines(SubSeq(t, 3, Len(t)))
              ELSE <<"\n">> \o NormalizeNewlines(Tail(t))
         ELSE <<Head(t)>> \o NormalizeNewlines(Tail(t))

\* str.strip()
RECURSIVE Strip(_)
Strip(s) ==
    IF s = << >> THEN s
    ELSE IF IsSpace(s[1]) THEN Strip(Tail(s))
    ELSE IF IsSpace(s[Len(s)]) THEN Strip(SubSeq(s, 1, Len(s) - 1))
    ELSE s

\* positions of the end markers at or after position i
EndMarkersFrom(t, i) == {e \in i..Len(t) : MatchAt(t, e, XZ)}

\* a scanner whose .* is greedy: a match runs to the last end marker
RECURSIVE RE_BLOCKS_findall_greedy(_, _)
RE_BLOCKS_findall_greedy(t, i) ==
    LET starts == {s \in i..Len(t) :
                      MatchAt(t, s, XA) /\ EndMarkersFrom(t, s + 3) # {}}
    IN  IF starts = {} THEN << >>
        ELSE LET s == Min(starts)
                 e == CHOOSE x \in EndMarkersFrom(t, s + 3) :
                         \A y \in EndMarkersFrom(t, s + 3) : y <= x
             IN  <<SubSeq(t, s, e + 2)>> \o RE_BLOCKS_findall_greedy(t, e + 3)

\* RE_BLOCKS.findall from position i on: (\^XA.*?\^XZ) with DOTALL and
\* IGNORECASE; the leftmost start marker that has an end marker after it,
\* up to the first such end marker, then on from behind the match
RECURSIVE RE_BLOCKS_findall(_, _)
RE_BLOCKS_findall(t, i) ==
    LET starts == {s \in i..Len(t) :
                      MatchAt(t, s, XA) /\ EndMarkersFrom(t, s + 3) # {}}
    IN  IF starts = {} THEN << >>
        ELSE LET s == Min(starts)
                 e == Min(EndMarkersFrom(t, s + 3))
             IN  <<SubSeq(t, s, e + 2)>> \o RE_BLOCKS_findall(t, e + 3)

zpl_split_blocks(zpl) ==
    LET t  == NormalizeNewlines(zpl)
        bs == RE_BLOCKS_findall(t, 1)
    IN  SelectSeq([k \in 1..Len(bs) |-> Strip(bs[k])], LAMBDA b : Strip(b) # << >>)

\* pieces of text an uploaded text is assembled from
TextPieces ==
    { XA, <<"^", "x", "a">>, XZ, <<"\r">>, <<"\n">>, <<"x">> }

SplitTexts == {Flatten(ps) : ps \in SeqsUpTo(TextPieces, MaxTextPieces)}

InitSplit ==
    /\ pc = "parse"
    /\ blocks = << >>
    /\ zpl_text \in SplitTexts
    /\ fn_block = << >> /\ fn_n = 0 /\ fn_out = << >> /\ fn_pq = 0
    /\ IdlePack /\ IdleCall /\ IdleRun

SplitBlocks ==
    /\ pc = "parse"
    /\ blocks' = zpl_split_blocks(zpl_text)
    /\ pc' = "parsed"
    /\ UNCHANGED <<fnVars, packVars, callVars, runVars>>

NextSplit == SplitBlocks

SpecSplit == InitSplit /\ [][NextSplit]_vars

\* the pairs of a start marker and an end marker behind it in the text
MarkerPairs(t) ==
    {<<s, e>> \in (1..Len(t)) \X (1..Len(t)) :
        MatchAt(t, s, XA) /\ MatchAt(t, e, XZ) /\ e >= s + 3}

\* the text without its line breaks
NoBreaks(s) == SelectSeq(s, LAMBDA c : c \notin {"\r", "\n"})

\* sp lists the non-overlapping pairs of t: every pair runs from the first
\* start marker behind the pair before it to the nearest end marker, and no
\* pair is left behind the last one
IsPairing(t, sp) ==
    /\ \A k \in 1..Len(sp) :
          LET from == IF k = 1 THEN 1 ELSE sp[k - 1][2] + 3
          IN  /\ sp[k][1] >= from
              /\ \A s \in from..(sp[k][1] - 1) : ~MatchAt(t, s, XA)
              /\ \A e \in (sp[k][1] + 3)..(sp[k][2] - 1) : ~MatchAt(t, e, XZ)
    /\ LET rest == IF sp = << >> THEN 1 ELSE sp[Len(sp)][2] + 3
       IN  \A p \in MarkerPairs(t) : p[1] < rest

\* C14: zpl_split_blocks returns, in order of appearance, one block per
\* non-overlapping pair of a start marker and the nearest end marker behind
\* it, whatever the casing of the markers and the line breaks between them;
\* a text without a complete pair gives no block.
C14_BlockPerPair ==
    pc = "parsed" =>
        /\ \E sp \in [1..Len(blocks) -> MarkerPairs(zpl_text)] :
              /\ IsPairing(zpl_text, sp)
              /\ \A k \in 1..Len(blocks) :
                    NoBreaks(blocks[k])
                       = NoBreaks(SubSeq(zpl_text, sp[k][1], sp[k][2] + 2))
        /\ MarkerPairs(zpl_text) = {} => blocks = << >>

\* two blocks, lower-case markers, a line break inside a block
C14_Witness ==
    /\ pc = "parsed"
    /\ Len(blocks) = 2
    /\ \E i \in 1..Len(zpl_text) : zpl_text[i] = "\r"
    /\ \E i \in 1..Len(blocks[1]) : blocks[1][i] = "\n"
    /\ \E i \in 1..Len(zpl_text) : zpl_text[i] = "x" /\ MatchAt(zpl_text, i - 1, XA)

\* start markers without end marker: no block
C14_WitnessNone ==
    /\ pc = "parsed"
    /\ blocks = << >>
    /\ \E i \in 1..Len(zpl_text) : MatchAt(zpl_text, i, XA)
    /\ \E i \in 1..Len(zpl_text) : MatchAt(zpl_text, i, XZ)

-----------------------------------------------------------------------------
(* Properties of the delivery inside the run.                              *)

\* C15: every call of call_labelary_pdf waits the inter-call delay of half a
\* second (1 / CHUNK_RPS) exactly once, as the first thing it does: a call
\* that has sent a request has exactly one delay in its events, before the
\* first request, and a batch that is handed over starts a call without
\* events, so that a delay lies before the first request of the run and
\* between the requests of two batches.
C15_DelayOncePerCall ==
    LET delays == {j \in 1..Len(hist) : hist[j].ev = "delay"}
    IN  /\ (pc \in {"call", "call_ret"} \/ Posts # << >>) =>
              /\ delays = {1}
              /\ hist[1].lo = hist[1].hi
              /\ 2 * hist[1].lo = Second
              /\ CHUNK_RPS * hist[1].lo = Second
        /\ pc = "call_enter" => hist = << >>

\* the call for the second batch has sent its first request
C15_Witness ==
    /\ pc = "call"
    /\ gi = 2
    /\ Len(results) = 1
    /\ Len(Posts) = 1
    /\ Len(hist) = 3
    /\ hist[1].ev = "delay"

\* C16 as stated: a delivery that got status 200, whatever the body, returns
\* the bytes of the response as a success, the bytes are appended to the merge
\* list and no failure entry is recorded for the batch.
C16_SuccessIsMerged ==
    /\ (pc = "call_ret" /\ SuccessOutcome(Posts[Len(Posts)])) =>
          result = Returned(Some(Posts[Len(Posts)].content), NoneVal, NoneVal)
    /\ \A k \in 1..Len(results) :
          DeliveredOK(results[k]) =>
              LET at == Cardinality({j \in 1..k : DeliveredOK(results[j])})
              IN  /\ Len(merged) >= at
                  /\ merged[at] = results[k][1][1]
                  /\ \A i \in 1..Len(failed) : failed[i].group # k

\* the source position of every item of the packed batches, in batch order
Origins(bs) ==
    Flatten([k \in 1..Len(bs) |-> [j \in 1..Len(Fragments(bs[k])) |-> k]])

\* the number of items in the batches before batch g
BatchOffset(g) == SumSeq([h \in 1..(g - 1) |-> Len(requests_list[h])])

\* C17 as stated: the failure entry of every block of a batch whose delivery
\* returned a failure carries
\* the 1-based position in the parsed block list of the block it was packed
\* from, the index of its batch and the status of the failed delivery.
C17_OwnSourceIndex ==
    \A i \in 1..Len(failed) :
        LET g == failed[i].group
            k == Cardinality({j \in 1..i : failed[j].group = g})
        IN  ~DeliveredOK(results[g]) =>
                /\ failed[i].index = Some(Origins(blocks)[BatchOffset(g) + k])
                /\ failed[i].http = results[g][3]

-----------------------------------------------------------------------------
(* Properties of the backoff, of the batches and of the sleeps.            *)

\* min(60, 2^(a-1)) for a = 1, 2, ..., in seconds
FixedBackoffs == <<1, 2, 4, 8, 16, 32, 60, 60>>

Backoffs == SelectSeq(hist, LAMBDA e : e.ev = "backoff")

\* C18: the sleep after a transient failure of attempt a, an HTTP one or a
\* transport error, is min(60, 2^(a-1)) seconds plus a jitter in [0, 0.5*a)
\* seconds; the fixed part never exceeds 60 seconds, and within a call the
\* lower and the upper bound of the sleeps strictly increase.
C18_BackoffBounds ==
    /\ \A j \in 1..Len(hist) :
          hist[j].ev = "backoff" =>
              /\ j > 1
              /\ TransientOutcome(hist[j - 1])
              /\ hist[j - 1].attempt = hist[j].attempt
              /\ hist[j].lo = Second * FixedBackoffs[hist[j].attempt]
              /\ 2 * (hist[j].hi - hist[j].lo) = Second * hist[j].attempt
              /\ hist[j].lo <= 60 * Second
    /\ \A i \in 1..Len(Backoffs) :
          /\ Backoffs[i].attempt = i
          /\ i > 1 => /\ Backoffs[i - 1].lo < Backoffs[i].lo
                      /\ Backoffs[i - 1].hi < Backoffs[i].hi
    /\ \A a \in 1..Len(FixedBackoffs) :
          /\ BackoffBase(a) = Second * FixedBackoffs[a]
          /\ BackoffBase(a) <= 60 * Second

\* five sleeps, after transport errors and after HTTP failures
C18_Witness ==
    /\ pc = "call_ret"
    /\ Len(Backoffs) = 5
    /\ [i \in 1..5 |-> Backoffs[i].lo] = <<2, 4, 8, 16, 32>>
    /\ [i \in 1..5 |-> Backoffs[i].hi] = <<3, 6, 11, 20, 37>>
    /\ \E j \in 1..Len(Posts) : Posts[j].ev = "error"
    /\ \E j \in 1..Len(Posts) : Posts[j].ev = "response" /\ Posts[j].status = 429
    /\ \E j \in 1..Len(Posts) : Posts[j].ev = "response" /\ Posts[j].status = 500

\* body = "\n".join(blocks)
RECURSIVE RequestBody(_)
RequestBody(bs) ==
    IF bs = << >> THEN << >>
    ELSE IF Len(bs) = 1 THEN bs[1]
    ELSE bs[1] \o <<"\n">> \o RequestBody(Tail(bs))

\* C19: no batch of build_requests_from_blocks is empty, at any step and in
\* the result, so that the body of its request is not empty; an empty block
\* list gives an empty batch list.
C19_NoEmptyBatch ==
    /\ \A k \in 1..Len(reqs) : reqs[k] # << >> /\ RequestBody(reqs[k]) # << >>
    /\ (pc = "packed" /\ blocks = << >>) => reqs = << >>
    /\ (pc = "packed" /\ blocks # << >>) => reqs # << >>

\* the first block is cut in pieces while no batch is under construction
C19_Witness ==
    /\ pc = "packed"
    /\ Len(blocks) >= 2
    /\ parse_pq(blocks[1]) > Cap
    /\ Len(reqs) >= 3
    /\ \A k \in 1..Len(reqs) : reqs[k] # << >>

\* an empty block list
C19_WitnessEmpty ==
    /\ pc = "packed"
    /\ blocks = << >>
    /\ reqs = << >>

\* C20: in one call the backoff sleeps are as many as the attempts that ended
\* in a transient outcome: every such attempt, the last allowed one included,
\* is followed at once by its sleep, so that a call that exhausts its retries
\* sleeps max_retries times and ends with a sleep that no request follows.
C20_SleepAfterEveryTransient ==
    /\ Len(Backoffs) = Cardinality({j \in 1..Len(Posts) : TransientOutcome(Posts[j])})
    /\ \A j \in 1..Len(hist) :
          TransientOutcome(hist[j]) =>
              /\ j < Len(hist)
              /\ hist[j + 1].ev = "backoff"
              /\ hist[j + 1].attempt = hist[j].attempt
    /\ (result # NoResult /\ result = Exhausted) =>
          /\ Len(Backoffs) = max_retries
          /\ hist[Len(hist)].ev = "backoff"
          /\ hist[Len(hist)].attempt = max_retries
          /\ pc = "call_ret"

\* the retries are exhausted: five sleeps, the last event is a sleep
C20_Witness ==
    /\ pc = "call_ret"
    /\ result = Exhausted
    /\ Len(Posts) = max_retries
    /\ Len(Backoffs) = max_retries
    /\ hist[Len(hist)].ev = "backoff"
    /\ Len(hist) = 2 * max_retries + 1

=============================================================================
